---- MODULE Spec2Model ----
\* Model of monitorable.py: the collection pipeline of the resource audit.
\* A coordinator (the event loop running get_resources, then get_alarms,
\* then the module-level grouping / filtering / rendering code) submits
\* blocking provider calls to a ThreadPoolExecutor and consumes completions.
EXTENDS Integers, Sequences, FiniteSets, TLC

\* ---------------------------------------------------------------- bounds
\* longest regions list explored
MaxRegions == 2
\* the pool is explored with at most PoolCap threads (see W)
PoolCap == 2
\* longest regions / skip list given in the config file or on the command line
MaxListed == 1

\* ---------------------------------------------------- program constants
\* ThreadPoolExecutor(max_workers=100)
max_workers == 100
\* the pool size of the model: max_workers, scaled down to PoolCap
W == IF max_workers < PoolCap THEN max_workers ELSE PoolCap

\* region names returned by describe_regions (two stand for the list)
all_regions == {"r1", "r2"}
\* the regions list before any setting is applied, in the API's order
region_list == <<"r1", "r2">>
\* service modules found in lib/services (two stand for the directory)
supported_services == <<"ec2", "rds">>
supported_formats == {"audit", "json", "yaml", "tags", "cfn-monitor", "cfn-guardian"}

VARIABLES
    config,         \* config file: per key, {} when absent, else {value}
    args,           \* --format / --regions / --skip: {} when absent, else {value}
    regions,        \* effective regions list (may repeat a region)
    skip,           \* effective set of skipped services
    output_format,  \* effective output format
    args_tag,       \* --tag ("" when absent)
    args_filter,    \* --filter ("" when absent)
    pc,             \* position of the main thread
    task,           \* get_resources: status of each submitted provider call
    completed,      \* get_resources: completions not yet awaited, oldest first
    nconsumed,      \* get_resources: completions awaited so far
    resources,      \* Resources object: what add() received, in order
    adds,           \* per submitted call: times its result went to add()
    calls,          \* per (region, service): times the provider was invoked
    atask,          \* get_alarms: status of each submitted alarms.get call
    alarm_calls,    \* per region: times alarms.get was invoked
    alarms,         \* Alarms object: regions whose alarms.get returned
    grouped,        \* group_by_tag was invoked
    filtered,       \* filter_by_tag was invoked
    rendered        \* renderers invoked, in order

vars == <<config, args, regions, skip, output_format, args_tag, args_filter, pc, task,
          completed, nconsumed, resources, adds, calls, atask, alarm_calls,
          alarms, grouped, filtered, rendered>>

settings == <<regions, skip, output_format>>
inputs == <<config, args, settings, args_tag, args_filter>>
resvars == <<task, completed, nconsumed, resources, adds, calls>>
alarmvars == <<atask, alarm_calls, alarms>>
tailvars == <<grouped, filtered, rendered>>

\* ---------------------------------------------------------------- helpers
Range(s) == {s[i] : i \in 1..Len(s)}

SeqsUpTo(S, n) == UNION {[1..k -> S] : k \in 0..n}

Finished == {"ok", "failed"}

\* the value of a setting that is present
The(S) == CHOOSE x \in S : TRUE

Option(S) == {{}} \cup {{x} : x \in S}

NoSetting == [format |-> {}, regions |-> {}, skip |-> {}]

\* names a user can write: the real ones and one that does not exist
listed_regions == all_regions \cup {"mars"}
listed_services == {"ec2", "rds", "s3x"}
config_formats == {"json", "xml"}
args_formats == {"yaml", "xml"}

\* config[key] is read: 'key' in config and not args.key
ConfigUsedAlways(key) == config[key] # {}

ConfigUsed(key) == config[key] # {} /\ args[key] = {}

\* args.key is truthy
ArgsUsed(key) == args[key] # {}

\* value in supported_formats
ValidFormat(f) == f \in supported_formats

\* all(elem in regions for elem in value)
ValidRegions(l, avail) == \A i \in 1..Len(l) : l[i] \in {avail[j] : j \in 1..Len(avail)}

ValidSkipAny(sk) == TRUE

\* all(elem in supported_services for elem in value)
ValidSkip(sk) == \A e \in sk : e \in {supported_services[j] : j \in 1..Len(supported_services)}

\* lines 72-82
tag_group == args_tag # ""

tag_filter_unguarded == args_filter

tag_filter == IF args_tag # "" /\ args_filter # "" THEN args_filter ELSE ""

\* inner loop of get_resources: the services of one region, skip removed
RECURSIVE ServiceItems(_, _, _)
ServiceItems(region, svcs, sk) ==
    IF svcs = <<>> THEN <<>>
    ELSE (IF Head(svcs) \notin sk
          THEN <<[region |-> region, service |-> Head(svcs)]>>
          ELSE <<>>) \o ServiceItems(region, Tail(svcs), sk)

WorkItemsNoSkip(regs, sk) ==
    LET RECURSIVE Build(_)
        Build(rs) == IF rs = <<>> THEN <<>>
                     ELSE ServiceItems(Head(rs), supported_services, {})
                          \o Build(Tail(rs))
    IN Build(regs)

\* outer loop of get_resources: the calls it submits, in submission order
WorkItems(regs, sk) ==
    LET RECURSIVE Build(_)
        Build(rs) == IF rs = <<>> THEN <<>>
                     ELSE ServiceItems(Head(rs), supported_services, sk)
                          \o Build(Tail(rs))
    IN Build(regs)

items == WorkItems(regions, skip)

\* what service_classes[service](region) returns: the service object of
\* that region, identified by both
Discover(item) == [service |-> item.service, region |-> item.region]

Running(t) == Cardinality({i \in 1..Len(t) : t[i] = "running"})

InFlight == Running(task) + Running(atask)

SlotFreeUnbounded == TRUE

SlotFreeReserve == InFlight < W - 1

\* a pool thread picks up queued work only while fewer than W calls run
SlotFree == InFlight < W

\* the oldest queued call of a list (the executor's queue is FIFO)
NextQueued(t) ==
    IF \E i \in 1..Len(t) : t[i] = "queued"
    THEN CHOOSE i \in 1..Len(t) :
            t[i] = "queued" /\ \A j \in 1..(i - 1) : t[j] # "queued"
    ELSE 0

AllSubmitted == Len(task) = Len(items)

ResourcesDrainedEarly == AllSubmitted /\ nconsumed >= 1 /\ completed = <<>>

\* as_completed is exhausted: one completion awaited per submitted call
ResourcesDrained == AllSubmitted /\ nconsumed = Len(items)

AlarmsSubmitted == Len(atask) = Len(regions)

AlarmsDoneFirst == AlarmsSubmitted /\ \E i \in 1..Len(atask) : atask[i] \in Finished

\* asyncio.wait returns when every future is done (ALL_COMPLETED)
AlarmsDone == AlarmsSubmitted /\ \A i \in 1..Len(atask) : atask[i] \in Finished

\* ------------------------------------------------------------------ Init
Init ==
    /\ regions \in SeqsUpTo(all_regions, MaxRegions)
    /\ skip \in SUBSET Range(supported_services)
    /\ output_format \in supported_formats
    /\ config = [format |-> {output_format}, regions |-> {regions}, skip |-> {skip}]
    /\ args = NoSetting
    /\ args_tag \in {"", "team"}
    /\ args_filter \in {"", "ops"}
    /\ pc = "get_resources"
    /\ task = <<>>
    /\ completed = <<>>
    /\ nconsumed = 0
    /\ resources = <<>>
    /\ adds = <<>>
    /\ calls = [p \in all_regions \X Range(supported_services) |-> 0]
    /\ atask = <<>>
    /\ alarm_calls = [r \in all_regions |-> 0]
    /\ alarms = {}
    /\ grouped = FALSE
    /\ filtered = FALSE
    /\ rendered = <<>>

\* -------------------------------------------------------------- settings
\* the script before any setting is applied: lines 47-59
ConfigInit ==
    /\ config \in [format : Option(config_formats),
                    regions : Option(SeqsUpTo(listed_regions, MaxListed)),
                    skip : Option({sk \in SUBSET listed_services : Cardinality(sk) <= MaxListed})]
    /\ args \in [format : Option(args_formats),
                  regions : Option(SeqsUpTo(listed_regions, MaxListed) \ {<<>>}),
                  skip : Option({sk \in SUBSET listed_services :
                                   Cardinality(sk) \in 1..MaxListed})]
    /\ regions = region_list
    /\ skip = {}
    /\ output_format = "audit"
    /\ args_tag = ""
    /\ args_filter = ""
    /\ pc = "config"
    /\ task = <<>>
    /\ completed = <<>>
    /\ nconsumed = 0
    /\ resources = <<>>
    /\ adds = <<>>
    /\ calls = [p \in all_regions \X Range(supported_services) |-> 0]
    /\ atask = <<>>
    /\ alarm_calls = [r \in all_regions |-> 0]
    /\ alarms = {}
    /\ grouped = FALSE
    /\ filtered = FALSE
    /\ rendered = <<>>

\* the first of the three tests of lines 85-99 that calls input_error
ConfigBad ==
    IF ConfigUsed("format") /\ ~ValidFormat(The(config.format)) THEN "format"
    ELSE IF ConfigUsed("regions") /\ ~ValidRegions(The(config.regions), regions) THEN "region"
    ELSE IF ConfigUsed("skip") /\ ~ValidSkip(The(config.skip)) THEN "service"
    ELSE ""

\* lines 84-99: the settings of the config file that no argument overrides
ApplyConfig ==
    /\ pc = "config"
    /\ ConfigBad = ""
    /\ output_format' = IF ConfigUsed("format") THEN The(config.format) ELSE output_format
    /\ regions' = IF ConfigUsed("regions") THEN The(config.regions) ELSE regions
    /\ skip' = IF ConfigUsed("skip") THEN The(config.skip) ELSE skip
    /\ pc' = "args"
    /\ UNCHANGED <<config, args, args_tag, args_filter, resvars, alarmvars, tailvars>>

\* input_error from lines 89, 94 or 99: exit(1), the settings tested
\* before the bad one already applied
ConfigError ==
    /\ pc = "config"
    /\ ConfigBad # ""
    /\ output_format' = IF ConfigBad # "format" /\ ConfigUsed("format")
                        THEN The(config.format) ELSE output_format
    /\ regions' = IF ConfigBad = "service" /\ ConfigUsed("regions")
                  THEN The(config.regions) ELSE regions
    /\ pc' = "exit"
    /\ UNCHANGED <<config, args, skip, args_tag, args_filter, resvars, alarmvars, tailvars>>

\* the first of the three tests of lines 102-118 that calls input_error
ArgsBad ==
    IF ArgsUsed("format") /\ ~ValidFormat(The(args.format)) THEN "format"
    ELSE IF ArgsUsed("regions") /\ ~ValidRegions(The(args.regions), regions) THEN "region"
    ELSE IF ArgsUsed("skip") /\ ~ValidSkip(The(args.skip)) THEN "service"
    ELSE ""

\* lines 101-118: the settings given on the command line
ApplyArgs ==
    /\ pc = "args"
    /\ ArgsBad = ""
    /\ output_format' = IF ArgsUsed("format") THEN The(args.format) ELSE output_format
    /\ regions' = IF ArgsUsed("regions") THEN The(args.regions) ELSE regions
    /\ skip' = IF ArgsUsed("skip") THEN The(args.skip) ELSE skip
    /\ pc' = "get_resources"
    /\ UNCHANGED <<config, args, args_tag, args_filter, resvars, alarmvars, tailvars>>

\* input_error from lines 106, 112 or 118: exit(1)
ArgsError ==
    /\ pc = "args"
    /\ ArgsBad # ""
    /\ output_format' = IF ArgsBad # "format" /\ ArgsUsed("format")
                        THEN The(args.format) ELSE output_format
    /\ regions' = IF ArgsBad = "service" /\ ArgsUsed("regions")
                  THEN The(args.regions) ELSE regions
    /\ pc' = "exit"
    /\ UNCHANGED <<config, args, skip, args_tag, args_filter, resvars, alarmvars, tailvars>>

\* ------------------------------------------------------- resource phase
\* loop.run_in_executor(executor, service_classes[service], region)
SubmitDiscover ==
    /\ pc = "get_resources"
    /\ Len(task) < Len(items)
    /\ task' = Append(task, "queued")
    /\ adds' = Append(adds, 0)
    /\ UNCHANGED <<inputs, pc, completed, nconsumed, resources, calls,
                   alarmvars, tailvars>>

StartDiscoverUnlessAborted ==
    /\ pc # "aborted"
    /\ NextQueued(task) # 0
    /\ SlotFree
    /\ LET i == NextQueued(task)
           p == <<items[i].region, items[i].service>>
       IN /\ task' = [task EXCEPT ![i] = "running"]
          /\ calls' = [calls EXCEPT ![p] = @ + 1]
    /\ UNCHANGED <<inputs, pc, completed, nconsumed, resources, adds,
                   alarmvars, tailvars>>

\* a pool thread takes the oldest queued call and invokes the provider;
\* pool threads run whatever the main thread does, also after it raised
StartDiscover ==
    /\ NextQueued(task) # 0
    /\ SlotFree
    /\ LET i == NextQueued(task)
           p == <<items[i].region, items[i].service>>
       IN /\ task' = [task EXCEPT ![i] = "running"]
          /\ calls' = [calls EXCEPT ![p] = @ + 1]
    /\ UNCHANGED <<inputs, pc, completed, nconsumed, resources, adds,
                   alarmvars, tailvars>>

FinishDiscoverAdds ==
    \E i \in 1..Len(task) : \E outcome \in Finished :
        /\ task[i] = "running"
        /\ task' = [task EXCEPT ![i] = outcome]
        /\ completed' = Append(completed, i)
        /\ resources' = IF outcome = "ok"
                        THEN Append(resources, Discover(items[i]))
                        ELSE resources
        /\ UNCHANGED <<inputs, pc, nconsumed, adds, calls,
                       alarmvars, tailvars>>

\* the provider call returns or raises; its future completes
FinishDiscover ==
    \E i \in 1..Len(task) : \E outcome \in Finished :
        /\ task[i] = "running"
        /\ task' = [task EXCEPT ![i] = outcome]
        /\ completed' = Append(completed, i)
        /\ UNCHANGED <<inputs, pc, nconsumed, resources, adds, calls,
                       alarmvars, tailvars>>

AddCompletedInSubmissionOrder ==
    /\ pc = "get_resources"
    /\ AllSubmitted
    /\ completed # <<>>
    /\ task[Head(completed)] = "ok"
    /\ resources' = IF Head(completed) = nconsumed + 1
                    THEN Append(resources, Discover(items[Head(completed)]))
                    ELSE resources
    /\ adds' = [adds EXCEPT ![Head(completed)] = @ + 1]
    /\ completed' = Tail(completed)
    /\ nconsumed' = nconsumed + 1
    /\ UNCHANGED <<inputs, pc, task, calls, alarmvars, tailvars>>

\* resources.add(await completed), the awaited call returned
AddCompleted ==
    /\ pc = "get_resources"
    /\ AllSubmitted
    /\ completed # <<>>
    /\ task[Head(completed)] = "ok"
    /\ resources' = Append(resources, Discover(items[Head(completed)]))
    /\ adds' = [adds EXCEPT ![Head(completed)] = @ + 1]
    /\ completed' = Tail(completed)
    /\ nconsumed' = nconsumed + 1
    /\ UNCHANGED <<inputs, pc, task, calls, alarmvars, tailvars>>

\* await completed re-raises the provider's exception: nothing catches it,
\* get_resources and run_until_complete raise and the script ends
RaiseCompleted ==
    /\ pc = "get_resources"
    /\ AllSubmitted
    /\ completed # <<>>
    /\ task[Head(completed)] = "failed"
    /\ completed' = Tail(completed)
    /\ nconsumed' = nconsumed + 1
    /\ pc' = "aborted"
    /\ UNCHANGED <<inputs, task, resources, adds, calls, alarmvars, tailvars>>

\* get_resources returns; line 161 selects the alarm phase for audit only
ReturnResources ==
    /\ pc = "get_resources"
    /\ ResourcesDrained
    /\ pc' = IF output_format = "audit" THEN "get_alarms" ELSE "group"
    /\ UNCHANGED <<inputs, resvars, alarmvars, tailvars>>

\* ---------------------------------------------------------- alarm phase
\* loop.run_in_executor(executor, alarms.get, region)
SubmitFetch ==
    /\ pc = "get_alarms"
    /\ Len(atask) < Len(regions)
    /\ atask' = Append(atask, "queued")
    /\ UNCHANGED <<inputs, pc, resvars, alarm_calls, alarms, tailvars>>

\* asyncio.wait([]) raises ValueError when the regions list is empty
WaitEmpty ==
    /\ pc = "get_alarms"
    /\ regions = <<>>
    /\ pc' = "aborted"
    /\ UNCHANGED <<inputs, resvars, alarmvars, tailvars>>

StartFetch ==
    /\ NextQueued(atask) # 0
    /\ SlotFree
    /\ LET i == NextQueued(atask)
       IN /\ atask' = [atask EXCEPT ![i] = "running"]
          /\ alarm_calls' = [alarm_calls EXCEPT ![regions[i]] = @ + 1]
    /\ UNCHANGED <<inputs, pc, resvars, alarms, tailvars>>

\* alarms.get returns (the Alarms object now holds the region) or raises
FinishFetch ==
    \E i \in 1..Len(atask) : \E outcome \in Finished :
        /\ atask[i] = "running"
        /\ atask' = [atask EXCEPT ![i] = outcome]
        /\ alarms' = IF outcome = "ok" THEN alarms \cup {regions[i]} ELSE alarms
        /\ UNCHANGED <<inputs, pc, resvars, alarm_calls, tailvars>>

ReturnAlarmsNoWait ==
    /\ pc = "get_alarms"
    /\ regions # <<>>
    /\ AlarmsSubmitted
    /\ pc' = "group"
    /\ UNCHANGED <<inputs, resvars, alarmvars, tailvars>>

\* await asyncio.wait(blocking_tasks) returns; exceptions stay in the futures
ReturnAlarms ==
    /\ pc = "get_alarms"
    /\ regions # <<>>
    /\ AlarmsDone
    /\ pc' = "group"
    /\ UNCHANGED <<inputs, resvars, alarmvars, tailvars>>

\* ------------------------------------------------ grouping and rendering
\* if tag_group: resources.group_by_tag(tag)
GroupByTag ==
    /\ pc = "group"
    /\ grouped' = tag_group
    /\ pc' = "filter"
    /\ UNCHANGED <<inputs, resvars, alarmvars, filtered, rendered>>

\* if tag_filter: resources.filter_by_tag(tag_filter)
FilterByTag ==
    /\ pc = "filter"
    /\ filtered' = (tag_filter # "")
    /\ pc' = "render"
    /\ UNCHANGED <<inputs, resvars, alarmvars, grouped, rendered>>

RenderAuditToo ==
    /\ pc = "render"
    /\ rendered' = IF output_format = "audit"
                   THEN Append(rendered, "audit")
                   ELSE Append(Append(rendered, "audit"), output_format)
    /\ pc' = "done"
    /\ UNCHANGED <<inputs, resvars, alarmvars, grouped, filtered>>

\* the chain of "if output_format == ..." tests: each matching renderer runs
Render ==
    /\ pc = "render"
    /\ rendered' = IF output_format \in supported_formats
                   THEN Append(rendered, output_format) ELSE rendered
    /\ pc' = "done"
    /\ UNCHANGED <<inputs, resvars, alarmvars, grouped, filtered>>

Next ==
    \/ SubmitDiscover
    \/ StartDiscover
    \/ FinishDiscover
    \/ AddCompleted
    \/ RaiseCompleted
    \/ ReturnResources
    \/ SubmitFetch
    \/ WaitEmpty
    \/ StartFetch
    \/ FinishFetch
    \/ ReturnAlarms
    \/ GroupByTag
    \/ FilterByTag
    \/ Render

Spec == Init /\ [][Next]_vars

\* every provider call returns or raises, every thread is scheduled
FairSpec == Spec /\ WF_vars(Next)

\* the whole script, from the raw settings on
ConfigNext ==
    \/ ApplyConfig
    \/ ConfigError
    \/ ApplyArgs
    \/ ArgsError
    \/ Next

ConfigSpec == ConfigInit /\ [][ConfigNext]_vars

FairConfigSpec == ConfigSpec /\ WF_vars(ConfigNext)

\* ------------------------------------------------------------ properties
SelectedPairs == Range(regions) \X (Range(supported_services) \ skip)

PairOf(i) == <<items[i].region, items[i].service>>

\* get_resources is over: it returned or it raised
PhaseEnded == pc # "get_resources"

\* the main thread is past get_resources and did not raise
Collected == pc \in {"get_alarms", "group", "filter", "render", "done"}

\* the alarm phase is over and the later stages run
PastAlarms == pc \in {"group", "filter", "render", "done"}

\* the script is over and no pool thread has work left
Quiescent ==
    /\ pc \in {"done", "aborted"}
    /\ \A i \in 1..Len(task) : task[i] \in Finished
    /\ \A i \in 1..Len(atask) : atask[i] \in Finished

\* most calls get_resources can submit under the bounds
MaxTasks == MaxRegions * Len(supported_services)

\* C1: every selected (region, service) pair has its provider invoked at
\* most once at any time, and exactly once when get_resources is over.
C1_InvokedExactlyOnce ==
    /\ \A p \in DOMAIN calls : calls[p] <= 1
    /\ PhaseEnded => \A p \in SelectedPairs : calls[p] = 1

\* C2: the calls get_resources submits are the cross product of the regions
\* and the services not skipped, one per entry of the regions list and
\* service; nothing outside the cross product is submitted or invoked.
C2_CrossProduct ==
    /\ \A i \in 1..Len(task) : PairOf(i) \in SelectedPairs
    /\ \A p \in DOMAIN calls : calls[p] > 0 => p \in SelectedPairs
    /\ AllSubmitted =>
          /\ {PairOf(i) : i \in 1..Len(task)} = SelectedPairs
          /\ Len(task) = Len(regions) * Cardinality(Range(supported_services) \ skip)

C2_Witness ==
    /\ AllSubmitted
    /\ Cardinality(Range(regions)) = 2
    /\ Cardinality(skip) = 1
    /\ \E p \in SelectedPairs : calls[p] > 0

C4_PhasesNotInterleaved ==
    /\ Len(atask) > 0 =>
          /\ Len(task) = Len(items)
          /\ \A i \in 1..Len(task) : task[i] \in Finished
    /\ ~ (/\ \E i \in 1..Len(task) : task[i] = "running"
          /\ \E j \in 1..Len(atask) : atask[j] = "running")

C4_Witness ==
    /\ Len(task) >= 2
    /\ \E j \in 1..Len(atask) : atask[j] = "running"

\* C5: when get_resources is over, every call that returned has had its
\* result passed to resources.add exactly once, and the Resources object
\* holds exactly the results of the calls that returned.
C5_AllResultsAdded ==
    /\ \A i \in 1..Len(adds) : adds[i] <= 1
    /\ PhaseEnded =>
          /\ \A i \in 1..Len(task) : task[i] = "ok" => adds[i] = 1
          /\ Range(resources) = {Discover(items[i]) : i \in {j \in 1..Len(task) : task[j] = "ok"}}

\* C6: once a call has failed, every call get_resources submits is still
\* executed and finishes (returns or raises), whatever the main thread does.
C6_SiblingsRun ==
    (\E i \in 1..Len(task) : task[i] = "failed")
    ~> (/\ Len(task) = Len(items)
        /\ \A j \in 1..Len(task) :
              task[j] \in Finished /\ calls[PairOf(j)] >= 1)

C6_Witness ==
    /\ pc = "aborted"
    /\ Len(task) = MaxTasks
    /\ \E i \in 1..Len(task) : task[i] = "failed"
    /\ \A i \in 1..Len(task) : task[i] \in Finished
    /\ Len(completed) = MaxTasks - 1

\* C7: when one call failed and all the others returned, the run is not
\* aborted, and the finished run holds exactly the results of the calls
\* that returned and has rendered.
C7_FailureDoesNotAbort ==
    (/\ Len(task) = Len(items)
     /\ Cardinality({i \in 1..Len(task) : task[i] = "failed"}) = 1
     /\ \A i \in 1..Len(task) : task[i] \in Finished)
    => /\ pc # "aborted"
       /\ pc = "done" =>
            /\ Range(resources) = {Discover(items[i]) : i \in {j \in 1..Len(task) : task[j] = "ok"}}
            /\ rendered # <<>>

\* C8: whatever the order of completions, once get_resources has returned
\* the Resources object holds, as a set, the results of all submitted calls.
C8_OrderIndependent ==
    Collected => Range(resources) = {Discover(items[i]) : i \in 1..Len(items)}

C8_Witness ==
    /\ Collected
    /\ Len(resources) >= 2
    /\ resources[1] = Discover(items[2])

\* C9: no alarm fetch is ever submitted or invoked unless the format is
\* audit, and an audit run that is over has invoked alarms.get exactly
\* once for every selected region.
C9_AlarmsIffAudit ==
    /\ output_format # "audit" =>
          /\ atask = <<>>
          /\ \A r \in DOMAIN alarm_calls : alarm_calls[r] = 0
    /\ (output_format = "audit" /\ Quiescent) =>
          \A r \in Range(regions) : alarm_calls[r] = 1

\* C10: the stages after get_alarms start only when the alarm fetch of
\* every entry of the regions list has returned or raised, and an alarm
\* phase with at least one region always ends in the rendered audit, with
\* the alarm data of the regions whose fetch returned.
C10_AlarmPhaseCompletes ==
    /\ [] ((PastAlarms /\ output_format = "audit") =>
             /\ Len(atask) = Len(regions)
             /\ \A i \in 1..Len(atask) : atask[i] \in Finished)
    /\ (pc = "get_alarms" /\ regions # <<>>)
         ~> (/\ pc = "done"
             /\ rendered = <<"audit">>
             /\ alarms = {regions[i] : i \in {j \in 1..Len(atask) : atask[j] = "ok"}})

C10_Witness ==
    /\ pc = "done"
    /\ \E i \in 1..Len(atask) : atask[i] = "failed"
    /\ \E i \in 1..Len(atask) : atask[i] = "ok"

\* C11: a filter value given without a tag key ends the run in an error:
\* such a run never reaches the renderers.
C11_FilterNeedsTag ==
    (args_filter # "" /\ args_tag = "") =>
        (pc \notin {"render", "done"} /\ rendered = <<>>)

\* C13: group_by_tag, filter_by_tag and the renderers run only when every
\* submitted provider call and alarm fetch has finished and no completion
\* is left to merge, so nothing can still write what they read.
C13_ReadersAfterWriters ==
    (pc \in {"group", "filter", "render", "done"}
       \/ grouped \/ filtered \/ rendered # <<>>)
    => /\ Len(task) = Len(items)
       /\ \A i \in 1..Len(task) : task[i] \in Finished
       /\ completed = <<>>
       /\ Len(resources) = Len(items)
       /\ \A i \in 1..Len(atask) : atask[i] \in Finished
       /\ output_format = "audit" => Len(atask) = Len(regions)

C13_Witness ==
    /\ pc = "render"
    /\ grouped
    /\ Len(task) >= 2
    /\ Len(atask) >= 2

\* C14: the Resources object changes only in a step of the main thread
\* that awaits one completion: no pool thread step changes it, and each
\* such step merges exactly one result.
C14_AddSerialized ==
    [][resources' # resources =>
          /\ pc = "get_resources"
          /\ Len(task) = Len(items)
          /\ task' = task
          /\ atask' = atask
          /\ Len(resources') = Len(resources) + 1
          /\ nconsumed' = nconsumed + 1
          /\ Len(completed') = Len(completed) - 1]_vars

C14_Witness ==
    /\ Len(completed) >= 2
    /\ Len(resources) >= 1

C16_FilterAfterGroup ==
    [][/\ (filtered' /\ ~filtered) =>
             (grouped /\ args_tag # "" /\ pc = "filter")
       /\ (grouped' /\ ~grouped) =>
             /\ pc = "group"
             /\ args_tag # ""
             /\ ~filtered
             /\ \A i \in 1..Len(task) : task[i] \in Finished
             /\ \A i \in 1..Len(atask) : atask[i] \in Finished
             /\ completed = <<>>
       /\ filtered => (filtered' /\ pc' \in {"render", "done"})
       /\ grouped => (grouped' /\ pc' \in {"filter", "render", "done"})
       /\ args_tag = "" => (~grouped' /\ ~filtered')]_vars

C16_Witness ==
    /\ pc = "done"
    /\ grouped
    /\ filtered

\* C17: a run with at least one region in which no resource call raises
\* reaches the end of rendering; the renderers are reached only when every
\* submitted call has finished, and a finished run has invoked exactly the
\* renderer of its output format, once.
C17_RendersOnce ==
    /\ [] (pc \in {"render", "done"} =>
             /\ Len(task) = Len(items)
             /\ \A i \in 1..Len(task) : task[i] \in Finished
             /\ \A i \in 1..Len(atask) : atask[i] \in Finished)
    /\ [] (pc = "done" => rendered = <<output_format>>)
    /\ [] (pc # "done" => rendered = <<>>)
    /\ (regions # <<>>)
         ~> (pc = "done" \/ \E i \in 1..Len(task) : task[i] = "failed")

C17_Witness ==
    /\ pc = "done"
    /\ rendered = <<"cfn-guardian">>
    /\ Len(task) >= 2
    /\ \A i \in 1..Len(task) : task[i] = "ok"

\* the setting a key resolves to, as written by the user: the argument
\* when given, else the config value when present, else nothing
Written(key) == IF args[key] # {} THEN args[key] ELSE config[key]

WrittenInvalid ==
    \/ \E f \in Written("format") :
          f \notin {"audit", "json", "yaml", "tags", "cfn-monitor", "cfn-guardian"}
    \/ \E l \in Written("regions") : \E i \in 1..Len(l) : l[i] \notin all_regions
    \/ \E sk \in Written("skip") : \E e \in sk : e \notin Range(supported_services)

BeforeCollection == pc \in {"config", "args", "exit"}

\* C12: a run whose effective format, regions or skip list is invalid
\* never leaves the settings code, never submits or invokes a provider or
\* alarm call, and ends in exit(1).
C12_ConfigErrorsFatal ==
    /\ [] (WrittenInvalid =>
             /\ BeforeCollection
             /\ task = <<>>
             /\ atask = <<>>
             /\ \A p \in DOMAIN calls : calls[p] = 0
             /\ \A r \in DOMAIN alarm_calls : alarm_calls[r] = 0)
    /\ WrittenInvalid ~> (pc = "exit")

C12_Witness ==
    /\ pc = "exit"
    /\ config.skip = {{"ec2"}}
    /\ args.skip = {{"s3x"}}
    /\ args.regions = {<<"r1">>}

\* C18: past the settings code each of format, regions and skip is the
\* argument when given, else the config value when present, else the
\* default, and is made of supported values; and the script exits in the
\* settings code only when one of these resolved settings is invalid, so
\* not for an invalid config value that a valid argument overrides.
C18_SettingResolution ==
    /\ ~BeforeCollection =>
          /\ output_format = IF Written("format") # {}
                             THEN The(Written("format")) ELSE "audit"
          /\ regions = IF Written("regions") # {}
                       THEN The(Written("regions")) ELSE <<"r1", "r2">>
          /\ skip = IF Written("skip") # {} THEN The(Written("skip")) ELSE {}
          /\ output_format \in supported_formats
          /\ Range(regions) \subseteq all_regions
          /\ skip \subseteq Range(supported_services)
    /\ pc = "exit" => WrittenInvalid

C18_Witness ==
    /\ pc = "done"
    /\ config.format = {"xml"}
    /\ args.format = {"yaml"}
    /\ config.regions = {<<"mars">>}
    /\ args.regions = {<<"r2">>}
    /\ config.skip = {}
    /\ output_format = "yaml"
    /\ regions = <<"r2">>
====
